---- MODULE Spec2Model ----
(***************************************************************************)
(* Aircraft Landing Problem (src/aircraft_landing_problem.py).             *)
(*                                                                         *)
(* Python lists are modelled as sequences; a Python index i is position    *)
(* i + 1 of the sequence (At).  Plane indices stay 0-based as in the       *)
(* source.  Cost rates are floats in the source; the model draws them from *)
(* the naturals, where float arithmetic is exact.                          *)
(***************************************************************************)
EXTENDS Integers, Sequences, FiniteSets, TLC

\* ---------------------------------------------------------------- bounds
MaxPlanes == 3
MaxTime == 2
MaxRate == 2
MaxSep == 1
MaxCut == 1
MaxExtra == 1
MaxCallers == 2
RngStates == 4

\* ------------------------------------------------------- program constants
PENALTY == 1000000000

VARIABLES
    \* the Instance (self.*)
    nb_planes, earliest_time, target_time, latest_time,
    earliness_cost, tardiness_cost, separation_time,
    \* the last call: its name, the candidate it was given or returned,
    \* what it returned
    called, solution, result,
    \* random_solution's last run: whether line 145 (the fallback) ran, and
    \* the (prev_plane, plane) pairs whose separation_time it read
    fallback, sep_reads,
    \* the whitespace-separated tokens of the instance file (line 50)
    tokens,
    \* the state of the generator behind the random module's functions, shared
    \* by every caller, and each caller's call in progress
    rng, calls

instance == <<nb_planes, earliest_time, target_time, latest_time,
              earliness_cost, tardiness_cost, separation_time>>

vars == <<nb_planes, earliest_time, target_time, latest_time,
          earliness_cost, tardiness_cost, separation_time,
          called, solution, result, fallback, sep_reads, tokens,
          rng, calls>>

\* ------------------------------------------------------------ Python lists
At(list, i) == list[i + 1]

InRange(list, i) == 0 <= i /\ i < Len(list)

\* list(range(n))
Range(n) == [i \in 1..n |-> i - 1]

RECURSIVE Insert(_, _)
Insert(x, s) ==
    IF s = <<>> THEN <<x>>
    ELSE IF x <= Head(s) THEN <<x>> \o s
    ELSE <<Head(s)>> \o Insert(x, Tail(s))

\* sorted(list)
RECURSIVE Sorted(_)
Sorted(s) == IF s = <<>> THEN <<>> ELSE Insert(Head(s), Sorted(Tail(s)))

\* what a call ends with: a returned number, or a raised exception
Return(v) == [kind |-> "return", value |-> v, exc |-> ""]
Raise(e) == [kind |-> "raise", value |-> 0, exc |-> e]

\* a candidate dictionary: keys holds the keys that are present
Dict(keys, order, times) ==
    [keys |-> keys, landing_order |-> order, landing_times |-> times]

Candidate(order, times) ==
    Dict({"landing_order", "landing_times"}, order, times)

\* solution.get(key) is None
GetIsNone(sol, key) == key \notin sol.keys

\* ------------------------------------------------------- evaluate_solution
\* faulty variant: the two rates taken from the wrong arrays
LandingCostRatesSwapped(plane, lt) ==
    LET target == At(target_time, plane)
    IN  IF lt < target
        THEN (target - lt) * At(tardiness_cost, plane)
        ELSE (lt - target) * At(earliness_cost, plane)

\* faulty variant: a late landing is charged the distance once, whatever the rate
LandingCostFlatLate(plane, lt) ==
    LET target == At(target_time, plane)
    IN  IF lt < target
        THEN (target - lt) * At(earliness_cost, plane)
        ELSE lt - target

\* lines 104-106: the penalty of one landing
LandingCost(plane, lt) ==
    LET target == At(target_time, plane)
    IN  IF lt < target
        THEN (target - lt) * At(earliness_cost, plane)
        ELSE (lt - target) * At(tardiness_cost, plane)

\* faulty variant: the latest time is not tested
OutsideWindowNoLatest(plane, lt) == lt < At(earliest_time, plane)

\* line 100: the window test
OutsideWindow(plane, lt) ==
    lt < At(earliest_time, plane) \/ lt > At(latest_time, plane)

\* faulty variant: the separation of the pair (current plane, previous plane)
MinSepReversed(order, p) ==
    At(At(separation_time, At(order, p)), At(order, p - 1))

\* line 113: the separation the pair at positions p - 1, p must keep
MinSep(order, p) ==
    At(At(separation_time, At(order, p - 1)), At(order, p))

\* line 114
TooClose(order, times, p) ==
    At(times, p) < At(times, p - 1) + MinSep(order, p)

\* lines 110-117
RECURSIVE SeparationLoop(_, _, _, _)
SeparationLoop(order, times, p, total_cost) ==
    IF p >= nb_planes THEN Return(total_cost)
    ELSE IF ~InRange(separation_time, At(order, p - 1))
            \/ ~InRange(At(separation_time, At(order, p - 1)), At(order, p))
    THEN Raise("IndexError")
    ELSE IF TooClose(order, times, p) THEN Return(PENALTY)
    ELSE SeparationLoop(order, times, p + 1, total_cost)

\* lines 97-107, then the separation loop
RECURSIVE WindowLoop(_, _, _, _)
WindowLoop(order, times, p, total_cost) ==
    IF p >= nb_planes THEN SeparationLoop(order, times, 1, total_cost)
    ELSE LET plane == At(order, p)
             lt == At(times, p)
         IN  IF ~InRange(earliest_time, plane) THEN Raise("IndexError")
             ELSE IF lt < At(earliest_time, plane) THEN Return(PENALTY)
             ELSE IF ~InRange(latest_time, plane) THEN Raise("IndexError")
             ELSE IF OutsideWindow(plane, lt) THEN Return(PENALTY)
             ELSE IF ~InRange(target_time, plane) THEN Raise("IndexError")
             ELSE IF lt < At(target_time, plane)
                     /\ ~InRange(earliness_cost, plane)
             THEN Raise("IndexError")
             ELSE IF lt >= At(target_time, plane)
                     /\ ~InRange(tardiness_cost, plane)
             THEN Raise("IndexError")
             ELSE WindowLoop(order, times, p + 1,
                             total_cost + LandingCost(plane, lt))

\* faulty variant: the lengths are tested, the permutation is not
MalformedNoSortCheck(sol) ==
    \/ GetIsNone(sol, "landing_order")
    \/ GetIsNone(sol, "landing_times")
    \/ Len(sol.landing_order) # nb_planes
    \/ Len(sol.landing_times) # nb_planes

\* lines 87-93: the structural checks
Malformed(sol) ==
    \/ GetIsNone(sol, "landing_order")
    \/ GetIsNone(sol, "landing_times")
    \/ Len(sol.landing_order) # nb_planes
    \/ Len(sol.landing_times) # nb_planes
    \/ Sorted(sol.landing_order) # Range(nb_planes)

evaluate_solution(sol) ==
    IF Malformed(sol) THEN Return(PENALTY)
    ELSE WindowLoop(sol.landing_order, sol.landing_times, 0, 0)

\* --------------------------------------------------------- random_solution
\* faulty variant: n independent draws of an index instead of a shuffle
ShufflesWithRepeats(n) == [1..n -> 0..(n - 1)]

\* what random.shuffle(list(range(n))) can leave
Shuffles(n) ==
    {s \in [1..n -> 0..(n - 1)] : \A i, j \in 1..n : s[i] = s[j] => i = j}

Max(a, b) == IF a >= b THEN a ELSE b

\* faulty variant: the previous landing and its separation are not looked at
MinTimeNoSeparation(order, times, p) == At(earliest_time, At(order, p))

\* lines 137-142
MinTime(order, times, p) ==
    IF p = 0 THEN At(earliest_time, At(order, p))
    ELSE Max(At(earliest_time, At(order, p)),
             At(times, p - 1) + MinSep(order, p))

\* line 143
MaxTimeOf(order, p) == At(latest_time, At(order, p))

\* line 144
FallbackAt(order, times, p) == MinTime(order, times, p) > MaxTimeOf(order, p)

\* lines 144-147: the times position p can get
LandingTimes(order, times, p) ==
    IF FallbackAt(order, times, p)
    THEN {MaxTimeOf(order, p)}
    ELSE MinTime(order, times, p)..MaxTimeOf(order, p)

\* lines 135-148: every landing_times list the loop can build from position p on
RECURSIVE TimesFrom(_, _, _)
TimesFrom(order, times, p) ==
    IF p >= nb_planes THEN {times}
    ELSE UNION {TimesFrom(order, Append(times, lt), p + 1) :
                    lt \in LandingTimes(order, times, p)}

\* whether building these times took line 145 at some position
TookFallback(order, times) ==
    \E p \in 0..(nb_planes - 1) : FallbackAt(order, SubSeq(times, 1, p), p)

\* the separation entries line 142 read
SepReads(order) ==
    {<<At(order, p - 1), At(order, p)>> : p \in 1..(nb_planes - 1)}

\* ------------------------------------------------ _load_instance_from_file
\* The texts int() and float() are given: decimal integers ("2"), reals
\* written with a fraction ("2.0"), and text that is no number.
IntTexts == <<"0", "1", "2", "3", "4", "5", "6", "7", "8", "9">>
RealTexts == <<"0.0", "1.0", "2.0", "3.0", "4.0", "5.0", "6.0", "7.0", "8.0", "9.0">>

IntText(v) == IntTexts[v + 1]
RealText(v) == RealTexts[v + 1]

\* int(tok) returns: a real text such as "2.0" raises ValueError
ParsesInt(tok) == \E v \in 0..(Len(IntTexts) - 1) : IntText(v) = tok
IntOf(tok) == CHOOSE v \in 0..(Len(IntTexts) - 1) : IntText(v) = tok

\* float(tok) returns: integer texts are accepted too
ParsesFloat(tok) ==
    ParsesInt(tok) \/ \E v \in 0..(Len(RealTexts) - 1) : RealText(v) = tok
FloatOf(tok) ==
    IF ParsesInt(tok) THEN IntOf(tok)
    ELSE CHOOSE v \in 0..(Len(RealTexts) - 1) : RealText(v) = tok

\* the loader at line 51: nothing read, no attribute set
Start ==
    [status |-> "ok", pos |-> 0, nb_planes |-> 0,
     earliest_time |-> <<>>, target_time |-> <<>>, latest_time |-> <<>>,
     earliness_cost |-> <<>>, tardiness_cost |-> <<>>,
     separation_time |-> <<>>, sep_row |-> <<>>]

\* next(it) on an exhausted iterator raises StopIteration
Exhausted(st, toks) == st.pos >= Len(toks)

\* _ = next(it)
Skip(st, toks) ==
    IF st.status # "ok" THEN st
    ELSE IF Exhausted(st, toks) THEN [st EXCEPT !.status = "StopIteration"]
    ELSE [st EXCEPT !.pos = @ + 1]

\* self.<field>.append(int(next(it)))
ReadInt(st, toks, field) ==
    IF st.status # "ok" THEN st
    ELSE IF Exhausted(st, toks) THEN [st EXCEPT !.status = "StopIteration"]
    ELSE IF ~ParsesInt(toks[st.pos + 1])
    THEN [st EXCEPT !.status = "ValueError", !.pos = @ + 1]
    ELSE [st EXCEPT !.pos = @ + 1,
                    ![field] = Append(@, IntOf(toks[st.pos + 1]))]

\* self.<field>.append(float(next(it)))
ReadFloat(st, toks, field) ==
    IF st.status # "ok" THEN st
    ELSE IF Exhausted(st, toks) THEN [st EXCEPT !.status = "StopIteration"]
    ELSE IF ~ParsesFloat(toks[st.pos + 1])
    THEN [st EXCEPT !.status = "ValueError", !.pos = @ + 1]
    ELSE [st EXCEPT !.pos = @ + 1,
                    ![field] = Append(@, FloatOf(toks[st.pos + 1]))]

\* line 52: self.nb_planes = int(next(it))
ReadCount(st, toks) ==
    IF Exhausted(st, toks) THEN [st EXCEPT !.status = "StopIteration"]
    ELSE IF ~ParsesInt(toks[st.pos + 1])
    THEN [st EXCEPT !.status = "ValueError", !.pos = @ + 1]
    ELSE [st EXCEPT !.pos = @ + 1, !.nb_planes = IntOf(toks[st.pos + 1])]

\* lines 67-69: the k separation values still to read of one row
RECURSIVE ReadRow(_, _, _)
ReadRow(st, toks, k) ==
    IF k = 0 \/ st.status # "ok" THEN st
    ELSE ReadRow(ReadInt(st, toks, "sep_row"), toks, k - 1)

\* faulty variant: the appearance time is not skipped
LoadPlaneNoAppearance(st, toks) ==
    LET earliest == ReadInt(st, toks, "earliest_time")
        target == ReadInt(earliest, toks, "target_time")
        latest == ReadInt(target, toks, "latest_time")
        earliness == ReadFloat(latest, toks, "earliness_cost")
        tardiness == ReadFloat(earliness, toks, "tardiness_cost")
        row == ReadRow([tardiness EXCEPT !.sep_row = <<>>], toks, st.nb_planes)
    IN  IF row.status = "ok"
        THEN [row EXCEPT !.separation_time = Append(@, row.sep_row)]
        ELSE row

\* lines 61-70: one plane
LoadPlane(st, toks) ==
    LET appearance == Skip(st, toks)
        earliest == ReadInt(appearance, toks, "earliest_time")
        target == ReadInt(earliest, toks, "target_time")
        latest == ReadInt(target, toks, "latest_time")
        earliness == ReadFloat(latest, toks, "earliness_cost")
        tardiness == ReadFloat(earliness, toks, "tardiness_cost")
        row == ReadRow([tardiness EXCEPT !.sep_row = <<>>], toks, st.nb_planes)
    IN  IF row.status = "ok"
        THEN [row EXCEPT !.separation_time = Append(@, row.sep_row)]
        ELSE row

\* line 60: the planes from p on
RECURSIVE LoadPlanes(_, _, _)
LoadPlanes(st, toks, p) ==
    IF p >= st.nb_planes \/ st.status # "ok" THEN st
    ELSE LoadPlanes(LoadPlane(st, toks), toks, p + 1)

\* lines 51-70
Load(toks) == LoadPlanes(Skip(ReadCount(Start, toks), toks), toks, 0)

\* ------------------------------------------------------------- the inputs
Times == 0..MaxTime
Rates == 0..MaxRate
Seps == 0..MaxSep

\* Instances a caller builds by direct construction (lines 36-42).  Planes
\* alternate between two classes.  Even planes have the window
\* [a, MaxTime - a] (empty when a is past the middle: nothing validates the
\* order) with the target at its start; odd planes have the whole horizon as
\* window with the target in the middle.  The two classes swap the rates r and
\* MaxRate - r.  Plane i must be followed by its cyclic successor no sooner
\* than s; every other pair needs no gap.
Even(i) == (i - 1) % 2 = 0

EarliestOf(n, a) == [i \in 1..n |-> IF Even(i) THEN a ELSE 0]
TargetOf(n, a) == [i \in 1..n |-> IF Even(i) THEN a ELSE (MaxTime + 1) \div 2]
LatestOf(n, a) == [i \in 1..n |-> IF Even(i) THEN MaxTime - a ELSE MaxTime]
EarlinessOf(n, r) == [i \in 1..n |-> IF Even(i) THEN MaxRate - r ELSE r]
TardinessOf(n, r) == [i \in 1..n |-> IF Even(i) THEN r ELSE MaxRate - r]
SeparationOf(n, s) ==
    [i \in 1..n |-> [j \in 1..n |-> IF j - 1 = i % n THEN s ELSE 0]]

\* __init__ with the arrays given directly (lines 36-42): they are stored as
\* given, whatever their lengths
Construct(n, earliest, target, latest, earliness, tardiness, separation) ==
    /\ nb_planes = n
    /\ earliest_time = earliest
    /\ target_time = target
    /\ latest_time = latest
    /\ earliness_cost = earliness
    /\ tardiness_cost = tardiness
    /\ separation_time = separation

Lists(n, S) == [1..n -> S]

Constant(n, v) == [i \in 1..n |-> v]

NoDict == Dict({}, <<>>, <<>>)

WrongLengths(n) == {k \in {n - 1, n + 1} : k >= 0}

\* Candidates handed to evaluate_solution on an instance of n planes: every
\* list of n indices in 0..n (n itself is out of range) with every list of n
\* times when it is a permutation and with the constant lists otherwise;
\* lists one too short or too long; dictionaries with a key missing.
Candidates(n) ==
    {Candidate(o, t) : o \in Shuffles(n), t \in Lists(n, Times)}
    \cup {Candidate(o, Constant(n, t)) : o \in Lists(n, 0..n), t \in Times}
    \cup {Candidate(Range(k), Constant(n, 0)) : k \in WrongLengths(n)}
    \cup {Candidate(Range(n), Constant(k, 0)) : k \in WrongLengths(n)}
    \cup {Dict(keys, Range(n), Constant(n, 0)) :
            keys \in (SUBSET {"landing_order", "landing_times"})
                     \ {{"landing_order", "landing_times"}}}

\* ------------------------------------------------------------ the actions
Idle ==
    /\ called = "idle"
    /\ solution = NoDict
    /\ result = Return(0)
    /\ fallback = FALSE
    /\ sep_reads = {}

\* the instance is built from arrays, no file is read
NoFile == tokens = <<>>

\* one caller at a time: no call in progress, the generator is not followed
NoCallers == rng = 0 /\ calls = <<>>

Init ==
    /\ \E n \in 0..MaxPlanes, a \in Times, r \in Rates, s \in Seps :
           Construct(n, EarliestOf(n, a), TargetOf(n, a), LatestOf(n, a),
                     EarlinessOf(n, r), TardinessOf(n, r), SeparationOf(n, s))
    /\ Idle
    /\ NoFile
    /\ NoCallers

\* a caller scores a candidate
CallEvaluate ==
    /\ called = "idle"
    /\ \E sol \in Candidates(nb_planes) :
        /\ called' = "evaluate_solution"
        /\ solution' = sol
        /\ result' = evaluate_solution(sol)
        /\ fallback' = FALSE
        /\ sep_reads' = {}
        /\ UNCHANGED <<instance, tokens, rng, calls>>

\* a caller asks for a random candidate
CallRandom ==
    /\ called = "idle"
    /\ \E order \in Shuffles(nb_planes) :
        \E times \in TimesFrom(order, <<>>, 0) :
            /\ called' = "random_solution"
            /\ solution' = Candidate(order, times)
            /\ result' = Return(0)
            /\ fallback' = TookFallback(order, times)
            /\ sep_reads' = SepReads(order)
            /\ UNCHANGED <<instance, tokens, rng, calls>>

\* the caller has used what the call returned and drops the candidate: calls
\* are synchronous, the next one starts after this one returned
Done ==
    /\ called # "idle"
    /\ called' = "idle"
    /\ solution' = NoDict
    /\ result' = Return(0)
    /\ fallback' = FALSE
    /\ sep_reads' = {}
    /\ UNCHANGED <<instance, tokens, rng, calls>>

Next == CallEvaluate \/ CallRandom \/ Done

Spec == Init /\ [][Next]_vars

\* Direct construction with arrays built for m planes while nb_planes is n:
\* __init__ accepts them (lines 32-42 test presence only).
InitLenient ==
    /\ \E n \in 0..MaxPlanes, m \in 0..MaxPlanes,
          a \in Times, r \in Rates, s \in Seps :
           Construct(n, EarliestOf(m, a), TargetOf(m, a), LatestOf(m, a),
                     EarlinessOf(m, r), TardinessOf(m, r), SeparationOf(m, s))
    /\ Idle
    /\ NoFile
    /\ NoCallers

NextLenient == CallEvaluate \/ Done

SpecLenient == InitLenient /\ [][NextLenient]_vars

\* The instance files: an instance of the family written out in the format of
\* the docstring (lines 12-21) with rates as reals, then one token replaced
\* (by text that is no number, by an integer, by a real), and up to MaxCut
\* tokens cut from the end or up to MaxExtra tokens added to it.
RECURSIVE Flatten(_)
Flatten(rows) == IF rows = <<>> THEN <<>> ELSE Head(rows) \o Flatten(Tail(rows))

FileOf(n, a, r, s) ==
    <<IntText(n), IntText(0)>>
    \o Flatten([i \in 1..n |->
         <<IntText(0),
           IntText(EarliestOf(n, a)[i]), IntText(TargetOf(n, a)[i]),
           IntText(LatestOf(n, a)[i]),
           RealText(EarlinessOf(n, r)[i]), RealText(TardinessOf(n, r)[i])>>
         \o [j \in 1..n |-> IntText(SeparationOf(n, s)[i][j])]])

Replacements == {"x", "0", "2.0"}

Resized(toks, d) ==
    IF d <= 0 THEN SubSeq(toks, 1, Len(toks) + d)
    ELSE toks \o [i \in 1..d |-> "0"]

\* the file as it is, or with token i replaced
Edited(file, i, tok) == IF i = 0 THEN file ELSE [file EXCEPT ![i] = tok]

\* before the file is read no attribute is set
InitLoad ==
    /\ \E n \in 0..MaxPlanes, a \in Times, r \in Rates, s \in Seps :
        \E i \in 0..Len(FileOf(n, a, r, s)), tok \in Replacements,
           d \in (0 - MaxCut)..MaxExtra :
            tokens = Resized(Edited(FileOf(n, a, r, s), i, tok), d)
    /\ Construct(0, <<>>, <<>>, <<>>, <<>>, <<>>, <<>>)
    /\ Idle
    /\ NoCallers

\* __init__ with instance_file (lines 28-29): the attributes are what the
\* loader had set when it returned or raised
CallLoad ==
    /\ called = "idle"
    /\ LET st == Load(tokens)
       IN  /\ nb_planes' = st.nb_planes
           /\ earliest_time' = st.earliest_time
           /\ target_time' = st.target_time
           /\ latest_time' = st.latest_time
           /\ earliness_cost' = st.earliness_cost
           /\ tardiness_cost' = st.tardiness_cost
           /\ separation_time' = st.separation_time
           /\ result' = IF st.status = "ok" THEN Return(0) ELSE Raise(st.status)
    /\ called' = "_load_instance_from_file"
    /\ UNCHANGED <<solution, fallback, sep_reads, tokens, rng, calls>>

NextLoad == CallLoad

SpecLoad == InitLoad /\ [][NextLoad]_vars

\* ------------------------------------------------- several callers at once
\* random.shuffle and random.randint (lines 133, 147) draw from the one
\* generator of the random module.  The generator is deterministic: a draw
\* returns a function of its state and moves it to the next state.  It is
\* modelled with RngStates states in one cycle.
NextRng(s) == (s + RngStates - 1) % RngStates

\* random's _randbelow(k): a number in 0..k-1 from the generator's state
RandBelow(s, k) == s % k

Callers == 1..MaxCallers

\* what the steps of concurrent calls leave alone: the Instance, and the
\* variables that follow a single caller or the loader
Untouched ==
    UNCHANGED <<instance, called, solution, result, fallback, sep_reads, tokens>>

IdleCall ==
    [pc |-> "idle", n |-> 0, landing_order |-> <<>>, landing_times |-> <<>>,
     p |-> 0, solution |-> NoDict, given |-> NoDict,
     rng0 |-> 0, built |-> NoDict, ret |-> Return(0)]

\* line 133, one round of random.shuffle: x[i], x[j] = x[j], x[i] with
\* j = _randbelow(i + 1)
Swapped(order, i, s) ==
    LET j == RandBelow(s, i + 1)
    IN  [order EXCEPT ![i + 1] = order[j + 1], ![j + 1] = order[i + 1]]

\* lines 144-147: the time position p gets when the generator is in state s
DrawnTime(order, times, p, s) ==
    IF FallbackAt(order, times, p) THEN MaxTimeOf(order, p)
    ELSE MinTime(order, times, p)
         + RandBelow(s, MaxTimeOf(order, p) - MinTime(order, times, p) + 1)

\* line 147 draws, line 145 does not
RngAfterTime(order, times, p, s) ==
    IF FallbackAt(order, times, p) THEN s ELSE NextRng(s)

\* faulty variant: landing_order.sort() in place of sorted(landing_order)
SortedInPlace(sol) == [sol EXCEPT !.landing_order = Sorted(@)]

\* line 92: sorted() builds a new list, the candidate is left as it was
AfterChecks(sol) == sol

\* lines 131-132 (and line 149 when there is no plane)
StartRandom(c) ==
    /\ calls[c].pc = "idle"
    /\ calls' = [calls EXCEPT ![c] =
           IF nb_planes = 0
           THEN [IdleCall EXCEPT !.pc = "built",
                                 !.rng0 = rng,
                                 !.built = Candidate(<<>>, <<>>)]
           ELSE [IdleCall EXCEPT !.pc = IF nb_planes >= 2 THEN "shuffle" ELSE "times",
                                 !.n = nb_planes,
                                 !.landing_order = Range(nb_planes),
                                 !.p = IF nb_planes >= 2 THEN nb_planes - 1 ELSE 0,
                                 !.rng0 = rng]]
    /\ UNCHANGED rng
    /\ Untouched

\* line 133: one round of the shuffle, i = n-1 down to 1
ShuffleStep(c) ==
    /\ calls[c].pc = "shuffle"
    /\ calls' = [calls EXCEPT ![c] =
           [@ EXCEPT !.landing_order = Swapped(@, calls[c].p, rng),
                     !.pc = IF calls[c].p > 1 THEN "shuffle" ELSE "times",
                     !.p = IF calls[c].p > 1 THEN @ - 1 ELSE 0]]
    /\ rng' = NextRng(rng)
    /\ Untouched

\* lines 135-149: one round of the loop, and the return after the last one
TimeStep(c) ==
    /\ calls[c].pc = "times"
    /\ calls[c].p < calls[c].n
    /\ LET order == calls[c].landing_order
           times == Append(calls[c].landing_times,
                           DrawnTime(order, calls[c].landing_times, calls[c].p, rng))
       IN  /\ calls' = [calls EXCEPT ![c] =
                  IF calls[c].p + 1 < calls[c].n
                  THEN [@ EXCEPT !.landing_times = times, !.p = @ + 1]
                  ELSE [IdleCall EXCEPT !.pc = "built",
                                        !.rng0 = calls[c].rng0,
                                        !.built = Candidate(order, times)]]
           /\ rng' = RngAfterTime(order, calls[c].landing_times, calls[c].p, rng)
    /\ Untouched

\* the caller hands the candidate it got to evaluate_solution: lines 85-93
CheckStep(c) ==
    /\ calls[c].pc = "built"
    /\ calls' = [calls EXCEPT ![c] =
           IF Malformed(calls[c].built)
           THEN [IdleCall EXCEPT !.pc = "scored",
                                 !.solution = calls[c].built,
                                 !.given = calls[c].built,
                                 !.ret = Return(PENALTY)]
           ELSE [IdleCall EXCEPT !.pc = "scoring",
                                 !.n = nb_planes,
                                 !.solution = AfterChecks(calls[c].built),
                                 !.given = calls[c].built]]
    /\ UNCHANGED rng
    /\ Untouched

\* lines 95-117: the two loops, which read the instance and the candidate only
ScoreStep(c) ==
    /\ calls[c].pc = "scoring"
    /\ calls' = [calls EXCEPT ![c] =
           [@ EXCEPT !.pc = "scored",
                     !.ret = WindowLoop(calls[c].solution.landing_order,
                                        calls[c].solution.landing_times, 0, 0)]]
    /\ UNCHANGED rng
    /\ Untouched

\* the caller drops what it got
Forget(c) ==
    /\ calls[c].pc \in {"built", "scored"}
    /\ calls' = [calls EXCEPT ![c] = IdleCall]
    /\ UNCHANGED rng
    /\ Untouched

\* random_solution run by one caller with no other call in between, from the
\* generator state s: the shuffle from round i down, the times from position
\* p on
RECURSIVE ShuffledAlone(_, _, _)
ShuffledAlone(order, i, s) ==
    IF i < 1 THEN [landing_order |-> order, rng |-> s]
    ELSE ShuffledAlone(Swapped(order, i, s), i - 1, NextRng(s))

RECURSIVE TimesAlone(_, _, _, _)
TimesAlone(order, times, p, s) ==
    IF p >= nb_planes THEN times
    ELSE TimesAlone(order, Append(times, DrawnTime(order, times, p, s)), p + 1,
                    RngAfterTime(order, times, p, s))

RandomAlone(s) ==
    LET shuffled == ShuffledAlone(Range(nb_planes), nb_planes - 1, s)
    IN  Candidate(shuffled.landing_order,
                  TimesAlone(shuffled.landing_order, <<>>, 0, shuffled.rng))

\* The callers share instances with the longest separation and the highest
\* rate of the family, with the widest windows or with empty windows for the
\* even planes; the generator starts in any state.
InitConc ==
    /\ \E n \in 0..MaxPlanes, a \in {0, MaxTime} :
           Construct(n, EarliestOf(n, a), TargetOf(n, a), LatestOf(n, a),
                     EarlinessOf(n, MaxRate), TardinessOf(n, MaxRate),
                     SeparationOf(n, MaxSep))
    /\ Idle
    /\ NoFile
    /\ rng \in 0..(RngStates - 1)
    /\ calls = [c \in Callers |-> IdleCall]

NextConc ==
    \E c \in Callers :
        \/ StartRandom(c)
        \/ ShuffleStep(c)
        \/ TimeStep(c)
        \/ CheckStep(c)
        \/ ScoreStep(c)
        \/ Forget(c)

SpecConc == InitConc /\ [][NextConc]_vars

\* ------------------------------------------------------------ the claims
\* The claims are stated over positions k = 1..n of the two lists and over the
\* planes, not through the loops of the source.

Scored == called = "evaluate_solution"
Built == called = "random_solution"

\* the order names every plane 0..n-1 exactly once
IsPermutation(order) ==
    /\ Len(order) = nb_planes
    /\ \A plane \in 0..(nb_planes - 1) :
           Cardinality({k \in 1..Len(order) : order[k] = plane}) = 1

WellFormed(sol) ==
    /\ sol.keys = {"landing_order", "landing_times"}
    /\ IsPermutation(sol.landing_order)
    /\ Len(sol.landing_times) = nb_planes

\* the plane landing at position k keeps its window
InWindow(sol, k) ==
    LET plane == sol.landing_order[k] + 1
    IN  /\ earliest_time[plane] <= sol.landing_times[k]
        /\ sol.landing_times[k] <= latest_time[plane]

\* positions j, k of the order keep the separation of their (first, second) pair
Separated(sol, j, k) ==
    sol.landing_times[k] >=
        sol.landing_times[j]
        + separation_time[sol.landing_order[j] + 1][sol.landing_order[k] + 1]

OnTarget(sol, k) ==
    sol.landing_times[k] = target_time[sol.landing_order[k] + 1]

Feasible(sol) ==
    /\ WellFormed(sol)
    /\ \A k \in 1..nb_planes : InWindow(sol, k)
    /\ \A k \in 2..nb_planes : Separated(sol, k - 1, k)

\* the time at which a plane lands
TimeOf(sol, plane) ==
    sol.landing_times[CHOOSE k \in 1..nb_planes : sol.landing_order[k] = plane]

\* the penalty of one plane: its earliness or its tardiness, at its rate
Positive(x) == IF x > 0 THEN x ELSE 0

PlanePenalty(sol, plane) ==
    Positive(target_time[plane + 1] - TimeOf(sol, plane))
        * earliness_cost[plane + 1]
    + Positive(TimeOf(sol, plane) - target_time[plane + 1])
        * tardiness_cost[plane + 1]

RECURSIVE PenaltyUpTo(_, _)
PenaltyUpTo(sol, n) ==
    IF n = 0 THEN 0 ELSE PenaltyUpTo(sol, n - 1) + PlanePenalty(sol, n - 1)

\* C1: a candidate whose landing_order is not a permutation of 0..N-1, or
\* whose landing_times has not N entries, or that lacks either key, is scored
\* as the sentinel 1e9.
C1_MalformedIsPenalty ==
    Scored /\ ~WellFormed(solution) => result = Return(PENALTY)

\* C1 witness: a scored candidate with both lists of length N whose order
\* repeats one index and omits another.
C1_Witness ==
    /\ Scored
    /\ nb_planes >= 2
    /\ solution.keys = {"landing_order", "landing_times"}
    /\ Len(solution.landing_order) = nb_planes
    /\ Len(solution.landing_times) = nb_planes
    /\ \A k \in 1..nb_planes : solution.landing_order[k] \in 0..(nb_planes - 1)
    /\ \E j, k \in 1..nb_planes :
           j # k /\ solution.landing_order[j] = solution.landing_order[k]
    /\ result = Return(PENALTY)

\* C2: a well-formed candidate with some landing time outside its plane's
\* window is scored as the sentinel, whatever the other times are.
C2_WindowViolationIsPenalty ==
    Scored /\ WellFormed(solution)
           /\ (\E k \in 1..nb_planes : ~InWindow(solution, k))
        => result = Return(PENALTY)

\* C2 witness: exactly one plane is outside its window, every other plane is
\* exactly on target and every consecutive pair is separated.
C2_Witness ==
    /\ Scored
    /\ WellFormed(solution)
    /\ nb_planes >= 2
    /\ \E k \in 1..nb_planes :
           /\ ~InWindow(solution, k)
           /\ \A j \in (1..nb_planes) \ {k} :
                  InWindow(solution, j) /\ OnTarget(solution, j)
    /\ \A k \in 2..nb_planes : Separated(solution, k - 1, k)
    /\ result = Return(PENALTY)

\* C3: a well-formed candidate with a consecutive pair closer than the
\* separation of (previous plane, current plane) is scored as the sentinel;
\* pairs that are not consecutive are not tested, so a candidate whose every
\* plane is in its window and whose consecutive pairs are separated is never
\* scored as the sentinel.
C3_SeparationViolationIsPenalty ==
    Scored /\ WellFormed(solution) =>
        /\ (\E k \in 2..nb_planes : ~Separated(solution, k - 1, k))
               => result = Return(PENALTY)
        /\ Feasible(solution) => result # Return(PENALTY)

\* C3 witness: every plane is in its window, and a consecutive pair is closer
\* than the separation of (previous, current) although it keeps the separation
\* of the reverse pair.
C3_Witness ==
    /\ Scored
    /\ WellFormed(solution)
    /\ \A k \in 1..nb_planes : InWindow(solution, k)
    /\ \E k \in 2..nb_planes :
           /\ ~Separated(solution, k - 1, k)
           /\ solution.landing_times[k] >=
                  solution.landing_times[k - 1]
                  + separation_time[solution.landing_order[k] + 1]
                                   [solution.landing_order[k - 1] + 1]
    /\ result = Return(PENALTY)

\* a feasible candidate in which two planes that are not consecutive are
\* closer than their separation
C3_NonAdjacentReached ==
    /\ Scored
    /\ Feasible(solution)
    /\ \E j, k \in 1..nb_planes : k > j + 1 /\ ~Separated(solution, j, k)

\* C4: a candidate that passes the structural, window and separation checks
\* is scored as the sum over the planes of earliness * earliness_cost or
\* tardiness * tardiness_cost; the sum is not negative, and is 0 when every
\* plane lands on its target and when there is no plane.
C4_FeasibleCostIsSum ==
    Scored /\ Feasible(solution) =>
        /\ result = Return(PenaltyUpTo(solution, nb_planes))
        /\ result.value >= 0
        /\ (\A k \in 1..nb_planes : OnTarget(solution, k)) => result.value = 0
        /\ nb_planes = 0 => result.value = 0

\* C4 witness: a feasible candidate with one plane before its target and one
\* after, both at a positive rate.
C4_Witness ==
    /\ Scored
    /\ Feasible(solution)
    /\ \E j, k \in 1..nb_planes :
           /\ solution.landing_times[j] < target_time[solution.landing_order[j] + 1]
           /\ earliness_cost[solution.landing_order[j] + 1] > 0
           /\ solution.landing_times[k] > target_time[solution.landing_order[k] + 1]
           /\ tardiness_cost[solution.landing_order[k] + 1] > 0
    /\ result.value > 0
    /\ result.value < PENALTY

\* C6: random_solution returns a permutation of 0..N-1 with N landing times;
\* with no plane it returns the empty schedule, which evaluate_solution scores
\* as 0; with one plane it reads no separation time.
C6_RandomIsWellFormed ==
    Built =>
        /\ WellFormed(solution)
        /\ nb_planes = 0 =>
               /\ solution = Candidate(<<>>, <<>>)
               /\ evaluate_solution(solution) = Return(0)
        /\ nb_planes = 1 => sep_reads = {}

\* C6 witness: a candidate built for MaxPlanes planes whose order is not the
\* identity.
C6_Witness ==
    /\ Built
    /\ nb_planes >= 2
    /\ solution.landing_order # Range(nb_planes)
    /\ sep_reads # {}

\* the two edge cases of C6
C6_EmptyReached == Built /\ nb_planes = 0 /\ evaluate_solution(solution) = Return(0)

C6_SingleReached == Built /\ nb_planes = 1

\* the candidate with the time at position k moved by d
Moved(sol, k, d) ==
    [sol EXCEPT !.landing_times[k] = sol.landing_times[k] + d]

\* C9 as claimed: among feasible candidates, one more unit past the target
\* costs exactly tardiness_cost[plane] more and strictly more, one more unit
\* before the target costs exactly earliness_cost[plane] more and strictly
\* more.
C9_StrictlyIncreasing ==
    Scored /\ Feasible(solution) =>
        \A k \in 1..nb_planes :
            LET plane == solution.landing_order[k] + 1
                lt == solution.landing_times[k]
                later == Moved(solution, k, 1)
                sooner == Moved(solution, k, -1)
            IN  /\ lt >= target_time[plane] /\ Feasible(later) =>
                    /\ evaluate_solution(later).value
                           = result.value + tardiness_cost[plane]
                    /\ evaluate_solution(later).value > result.value
                /\ lt <= target_time[plane] /\ Feasible(sooner) =>
                    /\ evaluate_solution(sooner).value
                           = result.value + earliness_cost[plane]
                    /\ evaluate_solution(sooner).value > result.value

\* C9 as amended: the cost grows by exactly the rate, which is strictly more
\* exactly when the rate is positive.
C9_IncreasesByRate ==
    Scored /\ Feasible(solution) =>
        \A k \in 1..nb_planes :
            LET plane == solution.landing_order[k] + 1
                lt == solution.landing_times[k]
                later == Moved(solution, k, 1)
                sooner == Moved(solution, k, -1)
            IN  /\ lt >= target_time[plane] /\ Feasible(later) =>
                    /\ evaluate_solution(later).value
                           = result.value + tardiness_cost[plane]
                    /\ evaluate_solution(later).value > result.value
                           <=> tardiness_cost[plane] > 0
                /\ lt <= target_time[plane] /\ Feasible(sooner) =>
                    /\ evaluate_solution(sooner).value
                           = result.value + earliness_cost[plane]
                    /\ evaluate_solution(sooner).value > result.value
                           <=> earliness_cost[plane] > 0

\* C9 witness: a feasible candidate in which one plane at or past its target
\* can land a unit later, and one at or before its target a unit sooner, at
\* rates of which one is zero and one is positive.
C9_Witness ==
    /\ Scored
    /\ Feasible(solution)
    /\ \E j, k \in 1..nb_planes :
           /\ solution.landing_times[j] >= target_time[solution.landing_order[j] + 1]
           /\ Feasible(Moved(solution, j, 1))
           /\ solution.landing_times[k] <= target_time[solution.landing_order[k] + 1]
           /\ Feasible(Moved(solution, k, -1))
           /\ tardiness_cost[solution.landing_order[j] + 1]
                  # earliness_cost[solution.landing_order[k] + 1]
           /\ tardiness_cost[solution.landing_order[j] + 1]
                  * earliness_cost[solution.landing_order[k] + 1] = 0

\* C10: the candidate random_solution returns is scored as the sentinel
\* exactly when the fallback (lower bound above the upper bound) was taken at
\* some position; without the fallback every time is in its window and every
\* consecutive pair is separated.
C10_PenaltyIffFallback ==
    Built =>
        /\ evaluate_solution(solution) = Return(PENALTY) <=> fallback
        /\ ~fallback => Feasible(solution)

\* C10 witness: the first plane got a time in its window, a later plane hit
\* the fallback because of the separation after its predecessor, and the
\* candidate is scored as the sentinel.
C10_Witness ==
    /\ Built
    /\ fallback
    /\ nb_planes >= 2
    /\ \A k \in 1..nb_planes :
           earliest_time[solution.landing_order[k] + 1]
               <= latest_time[solution.landing_order[k] + 1]
    /\ evaluate_solution(solution) = Return(PENALTY)

\* the fallback taken for the first plane, whose window is empty
C10_FirstFallbackReached ==
    /\ Built
    /\ fallback
    /\ nb_planes >= 1
    /\ earliest_time[solution.landing_order[1] + 1]
           > latest_time[solution.landing_order[1] + 1]

\* no fallback, for at least two planes
C10_NoFallbackReached == Built /\ ~fallback /\ nb_planes >= 2

\* C5: evaluate_solution is total: on every instance direct construction
\* accepts, arrays of other lengths than nb_planes included, and every
\* candidate, the call returns a number and raises nothing.
C5_AlwaysReturns == Scored => result.kind = "return"

Loaded == called = "_load_instance_from_file"

\* the plane count the file announces, and the tokens that count calls for
Announced == IntOf(tokens[1])
Expected(n) == 2 + n * (6 + n)

\* the 0-based place of field k of plane p: 0 appearance, 1 earliest,
\* 2 target, 3 latest, 4 earliness rate, 5 tardiness rate, 6 + j separation
\* to plane j
Place(n, p, k) == 2 + p * (6 + n) + k

IntPlaces(n) ==
    {0} \cup {Place(n, p, k) : p \in 0..(n - 1), k \in {1, 2, 3} \cup 6..(5 + n)}
RealPlaces(n) == {Place(n, p, k) : p \in 0..(n - 1), k \in {4, 5}}
IgnoredPlaces(n) == {1} \cup {Place(n, p, 0) : p \in 0..(n - 1)}

Token(i) == tokens[i + 1]

\* a token the loader converts is there and is not of its type
BadParsed(n) ==
    \/ \E i \in IntPlaces(n) : i < Len(tokens) /\ ~ParsesInt(Token(i))
    \/ \E i \in RealPlaces(n) : i < Len(tokens) /\ ~ParsesFloat(Token(i))

\* a freeze or appearance time is there and is no integer
BadIgnored(n) ==
    \E i \in IgnoredPlaces(n) : i < Len(tokens) /\ ~ParsesInt(Token(i))

\* every field of every plane is the token at its place
FieldsInPlace(n) ==
    /\ nb_planes = n
    /\ Len(earliest_time) = n /\ Len(target_time) = n /\ Len(latest_time) = n
    /\ Len(earliness_cost) = n /\ Len(tardiness_cost) = n
    /\ Len(separation_time) = n
    /\ \A p \in 0..(n - 1) :
        /\ earliest_time[p + 1] = IntOf(Token(Place(n, p, 1)))
        /\ target_time[p + 1] = IntOf(Token(Place(n, p, 2)))
        /\ latest_time[p + 1] = IntOf(Token(Place(n, p, 3)))
        /\ earliness_cost[p + 1] = FloatOf(Token(Place(n, p, 4)))
        /\ tardiness_cost[p + 1] = FloatOf(Token(Place(n, p, 5)))
        /\ Len(separation_time[p + 1]) = n
        /\ \A j \in 0..(n - 1) :
               separation_time[p + 1][j + 1] = IntOf(Token(Place(n, p, 6 + j)))

C7_ShortReached ==
    /\ Loaded
    /\ Len(tokens) >= 1
    /\ ParsesInt(tokens[1])
    /\ Len(tokens) = Expected(Announced) - 1
    /\ ~BadParsed(Announced)
    /\ result = Raise("StopIteration")

\* a file of the right length with a real where an integer is read, refused
C7_UnparsedReached ==
    /\ Loaded
    /\ Len(tokens) >= 1
    /\ ParsesInt(tokens[1])
    /\ Len(tokens) = Expected(Announced)
    /\ \E i \in IntPlaces(Announced) : ParsesFloat(Token(i)) /\ ~ParsesInt(Token(i))
    /\ result = Raise("ValueError")

CanBuild(sol) ==
    \A k \in 1..nb_planes :
        sol.landing_times[k]
            \in LandingTimes(sol.landing_order,
                             SubSeq(sol.landing_times, 1, k - 1), k - 1)

\* what holds of every call under interleaving
CallsIsolated ==
    \A c \in Callers :
        /\ calls[c].solution = calls[c].given
        /\ calls[c].pc = "scored" =>
               calls[c].ret = evaluate_solution(calls[c].given)
        /\ calls[c].pc = "built" =>
               /\ WellFormed(calls[c].built)
               /\ CanBuild(calls[c].built)

====
